---- MODULE Spec2Model ----
(***************************************************************************)
(* Forward-chaining entailment engine of src/forwardChaining.py.           *)
(* Text is a sequence of one-character strings; a symbol is such a         *)
(* sequence too.  Python dicts keep insertion order, so the Rule Set and   *)
(* the Fact Set are sequences of entries.                                  *)
(***************************************************************************)
EXTENDS Naturals, Sequences, FiniteSets, TLC

VARIABLES tell, ask, pc, horn, rules, facts, query, derived_facts,
          entailments, agenda, verdict, runs, popped, results,
          dj_in, dj_out

vars == <<tell, ask, pc, horn, rules, facts, query, derived_facts,
          entailments, agenda, verdict, runs, popped, results,
          dj_in, dj_out>>

(* ---------------------------- bounds ----------------------------------- *)

MaxClauses == 3

MaxLoadClauses == 2

MaxTerms == 3

MaxRuns == 2

\* cap on the length of the trace list (never reached: see C2_Terminates)
MaxTrace == 12

(* ------------------------ Python str helpers --------------------------- *)

\* the failure value of disjunction_to_implication (Python False)
Failure == <<"False">>

\* s[i:i+len(sep)] == sep
MatchAt(s, i, sep) ==
    /\ i + Len(sep) - 1 <= Len(s)
    /\ \A k \in 1..Len(sep) : s[i + k - 1] = sep[k]

\* sep in s
Contains(s, sep) == \E i \in 1..Len(s) : MatchAt(s, i, sep)

RECURSIVE SplitFrom(_, _, _, _)
SplitFrom(s, sep, i, cur) ==
    IF i > Len(s) THEN <<cur>>
    ELSE IF MatchAt(s, i, sep)
         THEN <<cur>> \o SplitFrom(s, sep, i + Len(sep), <<>>)
         ELSE SplitFrom(s, sep, i + 1, Append(cur, s[i]))

\* s.split(sep)
Split(s, sep) == SplitFrom(s, sep, 1, <<>>)

RECURSIVE LStrip(_, _)
\* s.lstrip(ch)
LStrip(s, ch) ==
    IF s # <<>> /\ s[1] = ch THEN LStrip(Tail(s), ch) ELSE s

RECURSIVE RStrip(_, _)
RStrip(s, ch) ==
    IF s # <<>> /\ s[Len(s)] = ch THEN RStrip(SubSeq(s, 1, Len(s) - 1), ch) ELSE s

\* s.strip()
Strip(s) == RStrip(LStrip(s, " "), " ")

\* s.startswith("~")
StartsWithTilde(s) == s # <<>> /\ s[1] = "~"

RECURSIVE WordsFrom(_, _, _)
WordsFrom(s, i, cur) ==
    IF i > Len(s) THEN (IF cur = <<>> THEN <<>> ELSE <<cur>>)
    ELSE IF s[i] = " "
         THEN (IF cur = <<>> THEN <<>> ELSE <<cur>>) \o WordsFrom(s, i + 1, <<>>)
         ELSE WordsFrom(s, i + 1, Append(cur, s[i]))

\* s.split()  (split on runs of whitespace, no empty tokens)
Words(s) == WordsFrom(s, 1, <<>>)

RECURSIVE Join(_, _)
\* sep.join(parts)
Join(parts, sep) ==
    IF parts = <<>> THEN <<>>
    ELSE IF Len(parts) = 1 THEN parts[1]
    ELSE parts[1] \o sep \o Join(Tail(parts), sep)

RECURSIVE TildeTerms(_)
\* [t for t in ts if t.startswith("~")]
TildeTerms(ts) ==
    IF ts = <<>> THEN <<>>
    ELSE (IF StartsWithTilde(ts[1]) THEN <<ts[1]>> ELSE <<>>) \o TildeTerms(Tail(ts))

RECURSIVE PlainTerms(_)
\* [t for t in ts if not t.startswith("~")]
PlainTerms(ts) ==
    IF ts = <<>> THEN <<>>
    ELSE (IF StartsWithTilde(ts[1]) THEN <<>> ELSE <<ts[1]>>) \o PlainTerms(Tail(ts))

Range(xs) == {xs[i] : i \in 1..Len(xs)}

(* ------------------------- Clause Classifier --------------------------- *)

\* body of the loop of is_horn_form for one clause: TRUE when no return False is hit
ClausePasses(raw) ==
    LET clause == Strip(raw) IN
    IF Contains(clause, <<"<", "=", ">">>) THEN FALSE
    ELSE IF Contains(clause, <<"=", ">">>)
    THEN LET parts == Split(clause, <<"=", ">">>) IN
         IF Len(parts) # 2 THEN FALSE
         ELSE LET conclusion == Strip(parts[2])
                  conclusion_literals == Words(conclusion)
              IN ~(StartsWithTilde(conclusion) \/ Len(conclusion_literals) > 1)
    ELSE LET split == Split(clause, <<"|", "|">>)
             literals == [i \in 1..Len(split) |-> Strip(split[i])]
             positive_literals == PlainTerms(literals)
         IN ~(Len(positive_literals) > 1)

RECURSIVE HornFrom(_, _)
HornFrom(clauses, i) ==
    IF i > Len(clauses) THEN TRUE
    ELSE IF ~ClausePasses(clauses[i]) THEN FALSE
    ELSE HornFrom(clauses, i + 1)

\* mutant of is_horn_form: the loop returns after its first clause
is_horn_form_first(tell_part) == ClausePasses(Split(tell_part, <<";">>)[1])

is_horn_form(tell_part) == HornFrom(Split(tell_part, <<";">>), 1)

(* ----------------------- Disjunction Normalizer ------------------------ *)

\* mutant of disjunction_to_implication: len(non_negations) >= 1
disjunction_to_implication_some(disjunction) ==
    LET terms == Split(disjunction, <<"|", "|">>)
        tilde == TildeTerms(terms)
        negations == [i \in 1..Len(tilde) |-> Tail(tilde[i])]
        non_negations == PlainTerms(terms)
    IN IF Len(negations) >= 1 /\ Len(non_negations) >= 1
       THEN Join(negations, <<"&">>) \o <<"=", ">">> \o non_negations[1]
       ELSE Failure

\* mutant of disjunction_to_implication: term in place of term[1:]
disjunction_to_implication_keep(disjunction) ==
    LET terms == Split(disjunction, <<"|", "|">>)
        negations == TildeTerms(terms)
        non_negations == PlainTerms(terms)
    IN IF Len(negations) >= 1 /\ Len(non_negations) = 1
       THEN Join(negations, <<"&">>) \o <<"=", ">">> \o non_negations[1]
       ELSE Failure

disjunction_to_implication(disjunction) ==
    LET terms == Split(disjunction, <<"|", "|">>)
        tilde == TildeTerms(terms)
        negations == [i \in 1..Len(tilde) |-> Tail(tilde[i])]
        non_negations == PlainTerms(terms)
    IN IF Len(negations) >= 1 /\ Len(non_negations) = 1
       THEN Join(negations, <<"&">>) \o <<"=", ">">> \o non_negations[1]
       ELSE Failure

(* ----------------------- Knowledge Base Builder ------------------------ *)

\* (p.strip().lstrip("~"), p.strip().startswith("~")) for p in premises.split("&")
ParsePremises(premises) ==
    LET ps == Split(premises, <<"&">>) IN
    [i \in 1..Len(ps) |->
        [sym |-> LStrip(Strip(ps[i]), "~"), neg |-> StartsWithTilde(Strip(ps[i]))]]

HasRule(rs, conclusion) == \E i \in 1..Len(rs) : rs[i].conclusion = conclusion

\* if conclusion not in self.rules: self.rules[conclusion] = []; then append
AddRule(rs, conclusion, disjunct) ==
    IF HasRule(rs, conclusion)
    THEN [i \in 1..Len(rs) |->
            IF rs[i].conclusion = conclusion
            THEN [rs[i] EXCEPT !.disjuncts = Append(@, disjunct)]
            ELSE rs[i]]
    ELSE Append(rs, [conclusion |-> conclusion, disjuncts |-> <<disjunct>>])

HasFact(fs, sym) == \E i \in 1..Len(fs) : fs[i].sym = sym

\* self.facts[sym]
FactValue(fs, sym) == fs[CHOOSE i \in 1..Len(fs) : fs[i].sym = sym].val

\* self.facts[sym] = val   (an existing key keeps its position)
SetFact(fs, sym, val) ==
    IF HasFact(fs, sym)
    THEN [i \in 1..Len(fs) |-> IF fs[i].sym = sym THEN [fs[i] EXCEPT !.val = val] ELSE fs[i]]
    ELSE Append(fs, [sym |-> sym, val |-> val])

RECURSIVE ParseFromConclusion(_, _, _, _)
\* mutant of ParseFrom: the flag is read from the conclusion token
ParseFromConclusion(clauses, i, rs, fs) ==
    IF i > Len(clauses) THEN [status |-> "loaded", rules |-> rs, facts |-> fs]
    ELSE
    LET stripped == Strip(clauses[i])
        isDisj == Contains(stripped, <<"|", "|">>)
        clause == IF isDisj THEN disjunction_to_implication(stripped) ELSE stripped
    IN IF isDisj /\ clause = Failure
       THEN [status |-> "exited", rules |-> rs, facts |-> fs]
       ELSE IF Contains(clause, <<"=", ">">>)
       THEN LET parts == Split(clause, <<"=", ">">>) IN
            IF Len(parts) # 2
            THEN [status |-> "crashed", rules |-> rs, facts |-> fs]
            ELSE LET premises == ParsePremises(parts[1])
                     conclusion == LStrip(Strip(parts[2]), "~")
                     is_negated_conclusion == StartsWithTilde(Strip(parts[2]))
                 IN ParseFromConclusion(clauses, i + 1,
                              AddRule(rs, conclusion,
                                      [premises |-> premises, neg |-> is_negated_conclusion]),
                              fs)
       ELSE LET literal == LStrip(Strip(clause), "~")
                is_positive == StartsWithTilde(Strip(clause))
            IN ParseFromConclusion(clauses, i + 1, rs, SetFact(fs, literal, ~is_positive))

RECURSIVE ParseFrom(_, _, _, _)
\* the loop over the clauses of parse_kb_and_query; status is "loaded",
\* "exited" (exit(1)) or "crashed" (the unpacking of split("=>") raises)
ParseFrom(clauses, i, rs, fs) ==
    IF i > Len(clauses) THEN [status |-> "loaded", rules |-> rs, facts |-> fs]
    ELSE
    LET stripped == Strip(clauses[i])
        isDisj == Contains(stripped, <<"|", "|">>)
        clause == IF isDisj THEN disjunction_to_implication(stripped) ELSE stripped
    IN IF isDisj /\ clause = Failure
       THEN [status |-> "exited", rules |-> rs, facts |-> fs]
       ELSE IF Contains(clause, <<"=", ">">>)
       THEN LET parts == Split(clause, <<"=", ">">>) IN
            IF Len(parts) # 2
            THEN [status |-> "crashed", rules |-> rs, facts |-> fs]
            ELSE LET premises == ParsePremises(parts[1])
                     conclusion == LStrip(Strip(parts[2]), "~")
                     is_negated_conclusion == StartsWithTilde(Strip(clause))
                 IN ParseFrom(clauses, i + 1,
                              AddRule(rs, conclusion,
                                      [premises |-> premises, neg |-> is_negated_conclusion]),
                              fs)
       ELSE LET literal == LStrip(Strip(clause), "~")
                is_positive == StartsWithTilde(Strip(clause))
            IN ParseFrom(clauses, i + 1, rs, SetFact(fs, literal, ~is_positive))

\* parse_kb_and_query from the Horn-form gate on
parse_kb_and_query(tell_part, ask_part) ==
    IF ~is_horn_form(tell_part)
    THEN [status |-> "exited", rules |-> <<>>, facts |-> <<>>, query |-> <<>>]
    ELSE LET r == ParseFrom(Split(tell_part, <<";">>), 1, <<>>, <<>>) IN
         [status |-> r.status, rules |-> r.rules, facts |-> r.facts,
          query |-> IF r.status = "loaded"
                    THEN <<LStrip(Strip(ask_part), "~"), StartsWithTilde(Strip(ask_part))>>
                    ELSE <<>>]

(* ---------------------- Forward Chaining Engine ------------------------ *)

\* mutant of TrueFacts: every symbol of the Fact Set, whatever its polarity
TrueFactsAll(fs) == [i \in 1..Len(fs) |-> fs[i].sym]

\* mutant of TrueFacts: only the first true symbol of the Fact Set
TrueFactsFirst(fs) ==
    LET T == { i \in 1..Len(fs) : fs[i].val } IN
    IF T = {} THEN <<>> ELSE <<fs[CHOOSE i \in T : \A j \in T : i <= j].sym>>

\* [fact for fact, is_true in self.facts.items() if is_true]
RECURSIVE TrueFacts(_)
TrueFacts(fs) ==
    IF fs = <<>> THEN <<>>
    ELSE (IF fs[1].val THEN <<fs[1].sym>> ELSE <<>>) \o TrueFacts(Tail(fs))

\* mutant of Fires: any() in place of all()
FiresAny(premises, derived) ==
    \E k \in 1..Len(premises) : (premises[k].sym \in derived) = (~premises[k].neg)

\* all((p in self.derived_facts) == (not neg) for p, neg in premises)
Fires(premises, derived) ==
    \A k \in 1..Len(premises) : (premises[k].sym \in derived) = (~premises[k].neg)

\* mutant of FireDisjunct: the guard "conclusion not in self.derived_facts" is dropped
FireDisjunctAgain(conclusion, disjunct, st) ==
    IF Fires(disjunct.premises, st.derived)
    THEN [agenda  |-> Append(st.agenda, conclusion),
          derived |-> st.derived \cup {conclusion},
          facts   |-> SetFact(st.facts, conclusion, ~disjunct.neg)]
    ELSE st

\* mutant of FireDisjunct: the Derived Facts Set is replaced, not extended
FireDisjunctForget(conclusion, disjunct, st) ==
    IF Fires(disjunct.premises, st.derived) /\ conclusion \notin st.derived
    THEN [agenda  |-> Append(st.agenda, conclusion),
          derived |-> {conclusion},
          facts   |-> SetFact(st.facts, conclusion, ~disjunct.neg)]
    ELSE st

\* mutant of FireDisjunct: agenda.appendleft(conclusion)
FireDisjunctFront(conclusion, disjunct, st) ==
    IF Fires(disjunct.premises, st.derived) /\ conclusion \notin st.derived
    THEN [agenda  |-> <<conclusion>> \o st.agenda,
          derived |-> st.derived \cup {conclusion},
          facts   |-> SetFact(st.facts, conclusion, ~disjunct.neg)]
    ELSE st

\* mutant of FireDisjunct: the polarity of the conclusion is not stored
FireDisjunctNoFact(conclusion, disjunct, st) ==
    IF Fires(disjunct.premises, st.derived) /\ conclusion \notin st.derived
    THEN [agenda  |-> Append(st.agenda, conclusion),
          derived |-> st.derived \cup {conclusion},
          facts   |-> st.facts]
    ELSE st

\* the body of the inner loop for one disjunct
FireDisjunct(conclusion, disjunct, st) ==
    IF Fires(disjunct.premises, st.derived) /\ conclusion \notin st.derived
    THEN [agenda  |-> Append(st.agenda, conclusion),
          derived |-> st.derived \cup {conclusion},
          facts   |-> SetFact(st.facts, conclusion, ~disjunct.neg)]
    ELSE st

RECURSIVE SweepFrom(_, _, _, _)
\* for conclusion, rules in self.rules.items(): for premises, neg in rules: ...
SweepFrom(rs, i, j, st) ==
    IF i > Len(rs) THEN st
    ELSE IF j > Len(rs[i].disjuncts) THEN SweepFrom(rs, i + 1, 1, st)
    ELSE SweepFrom(rs, i, j + 1, FireDisjunct(rs[i].conclusion, rs[i].disjuncts[j], st))

Sweep(rs, st) == SweepFrom(rs, 1, 1, st)

\* mutant of QueryCheck: the stored polarity is not compared
QueryCheckSymbolOnly(fact, fs, q) == fact = q[1]

\* fact == self.query[0] and self.facts[fact] == (not self.query[1])
QueryCheck(fact, fs, q) == fact = q[1] /\ FactValue(fs, fact) = (~q[2])

RECURSIVE RunLoop(_, _, _, _)
\* the while loop of run() as a function of its state: the verdict and the trace
RunLoop(rs, q, st, trace) ==
    IF st.agenda = <<>> THEN [verdict |-> "NO", trace |-> trace]
    ELSE LET fact == Head(st.agenda) IN
         IF QueryCheck(fact, st.facts, q)
         THEN [verdict |-> "YES", trace |-> Append(trace, fact)]
         ELSE RunLoop(rs, q,
                      Sweep(rs, [agenda |-> Tail(st.agenda), derived |-> st.derived,
                                 facts |-> st.facts]),
                      Append(trace, fact))

\* run() on a freshly built engine
run(rs, fs, q) ==
    RunLoop(rs, q, [agenda |-> TrueFacts(fs), derived |-> Range(TrueFacts(fs)),
                    facts |-> fs], <<>>)

(* ------------------------------ inputs --------------------------------- *)

\* clauses the engine runs on: facts, implications, negated premises
EngineClauses ==
    { <<"A">>, <<"B">>, <<"~", "D">>,
      <<"A", "=", ">", "B">>, <<"B", "=", ">", "C">>, <<"B", "=", ">", "A">>,
      <<"A", "&", "B", "=", ">", "C">>,
      <<"~", "A", "&", "B", "=", ">", "C">>,
      <<"C", "=", ">", "C">> }

\* clauses for the load path: well-formed ones and every kind of rejected one
LoadClauses ==
    { <<"A">>, <<" ", "A", "=", ">", "B", " ">>,
      <<"P", "<", "=", ">", "Q">>,
      <<"~", "A", "|", "|", "B">>, <<"~", "A", "|", "|", "~", "B">>,
      <<"A", "|", "|", "B">>, <<"A", " ", "|", "|", " ", "B">>,
      <<"B", " ", "|", "|", " ", "~", "A">>,
      <<"~", "A", "|", "|", "~", "B", "|", "|", "C">>,
      <<"A", "=", ">", "B", "&", "C">>, <<"A", "=", ">", "B", " ", "C">>,
      <<"A", "=", ">", "~", "B">>, <<"A", "=", ">", "B", "=", ">", "C">>,
      <<"A", "=", ">">>,
      <<"~", "A", "|", "|", "B", "=", ">", "C">> }

\* clauses about polarity: rules whose clause starts with "~", beside rules and
\* facts that give the same symbols the other polarity
PolarityClauses ==
    { <<"A">>, <<"B">>, <<"~", "C">>,
      <<"B", "=", ">", "C">>, <<"B", "=", ">", "A">>,
      <<"~", "A", "&", "B", "=", ">", "C">>,
      <<"~", "A", "&", "B", "=", ">", "B">> }

AskTexts == { <<"C">>, <<"~", "C">>, <<"B">> }

RECURSIVE TextsOf(_, _)
\* the TELL texts of exactly n clauses of the pool, joined by ";"
TextsOf(pool, n) ==
    IF n = 1 THEN pool
    ELSE { t \o <<";">> \o c : t \in TextsOf(pool, n - 1), c \in pool }

EngineTexts == UNION { TextsOf(EngineClauses, n) : n \in 1..MaxClauses }

LoadTexts == UNION { TextsOf(LoadClauses, n) : n \in 1..MaxLoadClauses }

PolarityTexts == UNION { TextsOf(PolarityClauses, n) : n \in 1..MaxClauses }

\* clauses about a symbol D stated false, stated true, derivable and not derivable;
\* no premise is negated
NegativeClauses ==
    { <<"~", "D">>, <<"D">>, <<"A">>,
      <<"A", "=", ">", "B">>, <<"B", "=", ">", "D">>, <<"C", "=", ">", "D">> }

NegativeAsks == { <<"D">>, <<"~", "D">> }

NegativeTexts == UNION { TextsOf(NegativeClauses, n) : n \in 1..MaxClauses }

\* terms of the disjunctions handed to disjunction_to_implication
Terms ==
    { <<"~", "A">>, <<"~", "B">>, <<"B">>, <<"C">>, <<"~", "~", "A">>,
      <<" ", "~", "A">>, <<"B", " ">> }

RECURSIVE DisjunctionsOf(_)
DisjunctionsOf(n) ==
    IF n = 1 THEN Terms
    ELSE { d \o <<"|", "|">> \o t : d \in DisjunctionsOf(n - 1), t \in Terms }

Disjunctions == UNION { DisjunctionsOf(n) : n \in 1..MaxTerms }

(* --------------------------- state machine ----------------------------- *)

\* __init__ before parse_kb_and_query is called
Fresh ==
    /\ pc = "new"
    /\ horn = "unset"
    /\ rules = <<>>
    /\ facts = <<>>
    /\ query = <<>>
    /\ derived_facts = {}
    /\ entailments = <<>>
    /\ agenda = <<>>
    /\ verdict = "none"
    /\ runs = 0
    /\ popped = <<>>
    /\ results = <<>>
    /\ dj_out = <<>>

Init == tell \in EngineTexts /\ ask \in AskTexts /\ dj_in = <<>> /\ Fresh

InitLoad == tell \in LoadTexts /\ ask \in AskTexts /\ dj_in = <<>> /\ Fresh

InitPolarity == tell \in PolarityTexts /\ ask \in AskTexts /\ dj_in = <<>> /\ Fresh

InitNegative == tell \in NegativeTexts /\ ask \in NegativeAsks /\ dj_in = <<>> /\ Fresh

\* an engine whose Disjunction Normalizer is about to be called on dj_in
InitNorm == tell = <<"A">> /\ ask = <<"A">> /\ dj_in \in Disjunctions /\ Fresh

\* ForwardChaining(filename): parse_kb_and_query on the TELL and ASK texts
Construct ==
    /\ pc = "new"
    /\ LET r == parse_kb_and_query(tell, ask) IN
       /\ pc' = r.status
       /\ horn' = IF is_horn_form(tell) THEN "yes" ELSE "no"
       /\ rules' = r.rules
       /\ facts' = r.facts
       /\ query' = r.query
    /\ UNCHANGED <<tell, ask, derived_facts, entailments, agenda, verdict, runs,
                   popped, results, dj_in, dj_out>>

\* run(), up to the loop: the agenda and the Derived Facts Set are rebuilt
RunStart ==
    /\ pc \in {"loaded", "done"}
    /\ runs < MaxRuns
    /\ agenda' = TrueFacts(facts)
    /\ derived_facts' = Range(TrueFacts(facts))
    /\ runs' = runs + 1
    /\ verdict' = "none"
    /\ popped' = <<>>
    /\ pc' = "running"
    /\ UNCHANGED <<tell, ask, horn, rules, facts, query, entailments, results,
                   dj_in, dj_out>>

\* one iteration of the while loop of run(); the lookup self.facts[fact] of the
\* query check raises KeyError when the popped query symbol has no entry
RunStep ==
    /\ pc = "running"
    /\ agenda # <<>>
    /\ Len(entailments) < MaxTrace
    /\ LET fact == Head(agenda)
           trace == Append(entailments, fact)
       IN /\ entailments' = trace
          /\ IF fact = query[1] /\ ~HasFact(facts, fact)
             THEN /\ pc' = "crashed"
                  /\ agenda' = Tail(agenda)
                  /\ UNCHANGED <<verdict, results, derived_facts, facts, popped>>
             ELSE
             /\ popped' = Append(popped, [sym |-> fact, pol |-> FactValue(facts, fact)])
             /\ IF QueryCheck(fact, facts, query)
                THEN /\ verdict' = "YES"
                     /\ pc' = "done"
                     /\ agenda' = Tail(agenda)
                     /\ results' = Append(results, [verdict |-> "YES", trace |-> trace])
                     /\ UNCHANGED <<derived_facts, facts>>
                ELSE LET st == Sweep(rules, [agenda |-> Tail(agenda),
                                             derived |-> derived_facts,
                                             facts |-> facts])
                     IN /\ agenda' = st.agenda
                        /\ derived_facts' = st.derived
                        /\ facts' = st.facts
                        /\ UNCHANGED <<verdict, pc, results>>
    /\ UNCHANGED <<tell, ask, horn, rules, query, runs, dj_in, dj_out>>

\* the loop ends with an empty agenda: print("NO")
RunExhaust ==
    /\ pc = "running"
    /\ agenda = <<>>
    /\ verdict' = "NO"
    /\ pc' = "done"
    /\ results' = Append(results, [verdict |-> "NO", trace |-> entailments])
    /\ UNCHANGED <<tell, ask, horn, rules, facts, query, derived_facts, entailments,
                   agenda, runs, popped, dj_in, dj_out>>

\* a direct call of disjunction_to_implication(dj_in)
Convert ==
    /\ dj_in # <<>>
    /\ dj_out = <<>>
    /\ dj_out' = disjunction_to_implication(dj_in)
    /\ UNCHANGED <<tell, ask, pc, horn, rules, facts, query, derived_facts,
                   entailments, agenda, verdict, runs, popped, results, dj_in>>

Next == Construct \/ RunStart \/ RunStep \/ RunExhaust

NextNorm == Convert

Spec == Init /\ [][Next]_vars

SpecLoad == InitLoad /\ [][Next]_vars

SpecNorm == InitNorm /\ [][NextNorm]_vars

SpecPolarity == InitPolarity /\ [][Next]_vars

SpecNegative == InitNegative /\ [][Next]_vars

SpecLive == Init /\ [][Next]_vars /\ WF_vars(RunStep) /\ WF_vars(RunExhaust)

(* ------------------------------ claims --------------------------------- *)

\* the Rule Set and Fact Set as loaded from the TELL text, before any run
Loaded == parse_kb_and_query(tell, ask)

\* only positive initial facts, and rules without any negation
PositiveKB ==
    /\ \A i \in 1..Len(Loaded.facts) : Loaded.facts[i].val
    /\ \A i \in 1..Len(Loaded.rules) : \A j \in 1..Len(Loaded.rules[i].disjuncts) :
          /\ ~Loaded.rules[i].disjuncts[j].neg
          /\ \A k \in 1..Len(Loaded.rules[i].disjuncts[j].premises) :
                ~Loaded.rules[i].disjuncts[j].premises[k].neg

\* one round of rule application over a set of symbols
Consequences(S) ==
    S \cup { Loaded.rules[i].conclusion : i \in
               { i \in 1..Len(Loaded.rules) :
                   \E j \in 1..Len(Loaded.rules[i].disjuncts) :
                      \A k \in 1..Len(Loaded.rules[i].disjuncts[j].premises) :
                         Loaded.rules[i].disjuncts[j].premises[k].sym \in S } }

RECURSIVE LeastClosed(_)
LeastClosed(S) == IF Consequences(S) = S THEN S ELSE LeastClosed(Consequences(S))

\* the least set containing the initial facts and closed under the rules
Entailed == LeastClosed({ Loaded.facts[i].sym : i \in 1..Len(Loaded.facts) })

\* C1: on a knowledge base of positive facts and negation-free implications, with
\* a non-negated query q, a finished run says YES exactly when q is in the least
\* set that contains the initial facts and is closed under the rules, else NO.
C1_Entailment ==
    (pc = "done" /\ PositiveKB /\ ~query[2]) =>
        /\ verdict \in {"YES", "NO"}
        /\ (verdict = "YES") <=> (query[1] \in Entailed)

\* C1 witness: a YES reached through a chain of two rule firings
C1_Witness ==
    /\ pc = "done" /\ PositiveKB /\ ~query[2] /\ runs = 1
    /\ verdict = "YES"
    /\ Len(entailments) >= 3
    /\ ~HasFact(Loaded.facts, query[1])

\* C2: every run terminates: once the loop is entered, the run reaches its end
\* (agenda exhausted, NO, or query check satisfied, YES).
C2_Terminates == (pc = "running") ~> (pc = "done")

\* C2 witness: a run that ended after popping several symbols
C2_Witness == pc = "done" /\ verdict = "NO" /\ agenda = <<>> /\ Len(popped) >= 3

\* some pop of this run took the query's symbol with the stored polarity NOT query.negated
QueryHit ==
    \E i \in 1..Len(popped) : popped[i].sym = query[1] /\ popped[i].pol = (~query[2])

\* C3: a run ends YES exactly when the query's symbol was popped while its stored
\* polarity equalled NOT query.negated; every other run ends NO on an empty agenda.
C3_VerdictIffHit ==
    pc = "done" =>
        /\ (verdict = "YES") <=> QueryHit
        /\ verdict # "YES" => (verdict = "NO" /\ agenda = <<>>)

\* C3 witness: a negated query answered YES by a symbol stored with polarity false
C3_Witness ==
    /\ pc = "done" /\ verdict = "YES" /\ query[2]
    /\ popped[Len(popped)] = [sym |-> query[1], pol |-> FALSE]

\* C4: a second invocation of run on the same engine gives the same verdict and
\* the same trace as the first.
C4_Idempotent ==
    (pc = "done" /\ Len(results) = 2) => results[2] = results[1]

\* the ";"-separated clauses of the TELL text, trimmed
Clauses == LET cs == Split(tell, <<";">>) IN [i \in 1..Len(cs) |-> Strip(cs[i])]

\* C5: when a clause of the TELL text contains "<=>", is_horn_form returns false
\* and the load aborts: nothing is loaded and run is never invoked.
C5_BiconditionalRejected ==
    ((\E i \in 1..Len(Clauses) : Contains(Clauses[i], <<"<", "=", ">">>)) /\ pc # "new") =>
        /\ horn = "no"
        /\ pc = "exited"
        /\ rules = <<>> /\ facts = <<>>
        /\ runs = 0 /\ results = <<>>

\* C5 witness: a rejected text whose biconditional is not its first clause
C5_Witness ==
    /\ pc = "exited" /\ horn = "no"
    /\ Len(Clauses) = 2
    /\ ~Contains(Clauses[1], <<"<", "=", ">">>)
    /\ ClausePasses(Clauses[1])
    /\ Contains(Clauses[2], <<"<", "=", ">">>)

\* the "||"-separated terms of a clause, trimmed
TrimmedTerms(clause) ==
    LET ts == Split(clause, <<"|", "|">>) IN [i \in 1..Len(ts) |-> Strip(ts[i])]

\* a "||" clause with zero, or with two or more, non-negated terms
Unconvertible(clause) ==
    /\ Contains(clause, <<"|", "|">>)
    /\ Cardinality({ i \in 1..Len(TrimmedTerms(clause)) :
                       ~StartsWithTilde(TrimmedTerms(clause)[i]) }) # 1

\* C6: a TELL text with an unconvertible disjunction is rejected with no partial
\* load: no clause of it is in the Rule Set or the Fact Set, and run is never invoked.
C6_NoPartialLoad ==
    ((\E i \in 1..Len(Clauses) : Unconvertible(Clauses[i])) /\ pc # "new") =>
        /\ pc # "loaded"
        /\ runs = 0
        /\ rules = <<>> /\ facts = <<>>

\* characters that cannot be part of a symbol
Connectives == {"&", "|", "~", "=", ">", "<", ";", " "}

\* one literal: an optional negation marker and a non-empty symbol
SingleToken(s) ==
    LET t == LStrip(s, "~") IN t # <<>> /\ \A i \in 1..Len(t) : t[i] \notin Connectives

\* the text after the first "=>" of a clause, trimmed
RightHandSide(clause) ==
    LET i == CHOOSE i \in 1..Len(clause) :
                 /\ MatchAt(clause, i, <<"=", ">">>)
                 /\ \A j \in 1..(i - 1) : ~MatchAt(clause, j, <<"=", ">">>)
    IN Strip(SubSeq(clause, i + 2, Len(clause)))

\* the number of "=>" in a clause
Implications(clause) == Len(Split(clause, <<"=", ">">>)) - 1

\* the check that applies to one clause, as the classifier's contract states it
HornClause(clause) ==
    /\ ~Contains(clause, <<"<", "=", ">">>)
    /\ Contains(clause, <<"=", ">">>) =>
          /\ Implications(clause) = 1
          /\ SingleToken(RightHandSide(clause))
          /\ ~StartsWithTilde(RightHandSide(clause))
    /\ ~Contains(clause, <<"=", ">">>) =>
          Cardinality({ i \in 1..Len(TrimmedTerms(clause)) :
                          ~StartsWithTilde(TrimmedTerms(clause)[i]) }) <= 1

\* C7: is_horn_form returns true exactly when every trimmed clause passes its
\* check: no "<=>"; with "=>", one "=>" and a single non-negated token on the
\* right; without "=>", at most one non-negated disjunct.
C7_Classifier ==
    pc # "new" => ((horn = "yes") <=> \A i \in 1..Len(Clauses) : HornClause(Clauses[i]))

\* a conclusion made of more than one literal
MultiLiteral(s) == Len(Split(s, <<"&">>)) > 1 \/ Len(Words(s)) > 1

\* C8: a clause whose conclusion has more than one literal makes the load fail, and
\* no rule keyed by a multi-literal conclusion is ever in the Rule Set.
C8_MultiLiteralConclusionRejected ==
    /\ ((\E i \in 1..Len(Clauses) :
            /\ Contains(Clauses[i], <<"=", ">">>)
            /\ MultiLiteral(RightHandSide(Clauses[i]))) /\ pc # "new") =>
          pc = "exited"
    /\ \A i \in 1..Len(rules) : ~MultiLiteral(rules[i].conclusion)

\* dj_in split on "||"; a term is negated when it starts with "~"
InTerms == Split(dj_in, <<"|", "|">>)

NegatedIn == SelectSeq(InTerms, StartsWithTilde)

PlainIn == SelectSeq(InTerms, LAMBDA t : ~StartsWithTilde(t))

\* C9: disjunction_to_implication succeeds exactly when its terms hold at least one
\* negated term and exactly one non-negated term; the implication then reads, left
\* of "=>", the negated terms without their marker, in order and joined by "&",
\* and, right of "=>", the non-negated term; otherwise the failure value.
C9_Normalizer ==
    dj_out # <<>> =>
        IF Len(NegatedIn) >= 1 /\ Len(PlainIn) = 1
        THEN /\ dj_out # Failure
             /\ LET sides == Split(dj_out, <<"=", ">">>) IN
                /\ Len(sides) = 2
                /\ sides[2] = PlainIn[1]
                /\ Split(sides[1], <<"&">>) =
                      [i \in 1..Len(NegatedIn) |-> SubSeq(NegatedIn[i], 2, Len(NegatedIn[i]))]
        ELSE dj_out = Failure

\* C9 witness: ~A||~B||C becomes A&B=>C
C9_Witness ==
    /\ dj_in = <<"~", "A", "|", "|", "~", "B", "|", "|", "C">>
    /\ dj_out = <<"A", "&", "B", "=", ">", "C">>

\* C10: during a run the Derived Facts Set only grows.
C10_Monotone ==
    [][pc = "running" => derived_facts \subseteq derived_facts']_vars

\* C10 witness: inside a run, a symbol was derived that was no initial fact
C10_Witness ==
    /\ pc = "running"
    /\ \E s \in derived_facts : ~HasFact(Loaded.facts, s)

\* the length self.entailments had when the current call of run began
TraceBase == IF runs <= 1 THEN 0 ELSE Len(results[runs - 1].trace)

\* the part of the trace accumulated by the current call of run
RunTrace == SubSeq(entailments, TraceBase + 1, Len(entailments))

\* every symbol enqueued so far in the current call, in queue order
Enqueued == RunTrace \o agenda

\* C11: the trace of a run is the sequence of popped symbols, in the order they
\* were enqueued: the initially-true facts in Fact Set insertion order, then the
\* conclusions as they fire (first in, first out); a YES trace ends with the query
\* symbol; TELL A; A=>B; B=>C ASK C gives YES with trace A, B, C.
C11_TraceOrder ==
    /\ [](pc \in {"running", "done"} =>
            /\ RunTrace = [i \in 1..Len(popped) |-> popped[i].sym]
            /\ (pc = "running" /\ popped = <<>>) =>
                  LET seeds == SelectSeq(facts, LAMBDA f : f.val)
                  IN agenda = [i \in 1..Len(seeds) |-> seeds[i].sym]
            /\ verdict = "YES" => RunTrace[Len(RunTrace)] = query[1]
            /\ (/\ tell = <<"A", ";", "A", "=", ">", "B", ";", "B", "=", ">", "C">>
                /\ ask = <<"C">> /\ pc = "done" /\ runs = 1) =>
                  (verdict = "YES" /\ entailments = <<<<"A">>, <<"B">>, <<"C">>>>))
    /\ [][pc = "running" =>
            /\ SubSeq(Enqueued', 1, Len(Enqueued)) = Enqueued
            /\ \/ RunTrace' = RunTrace
               \/ RunTrace' = Append(RunTrace, Head(agenda))]_vars

\* C11 witness: the scenario A; A=>B; B=>C ASK C has ended YES with trace A, B, C
C11_Witness ==
    /\ tell = <<"A", ";", "A", "=", ">", "B", ";", "B", "=", ">", "C">>
    /\ pc = "done" /\ runs = 1 /\ verdict = "YES"
    /\ entailments = <<<<"A">>, <<"B">>, <<"C">>>>

\* a symbol: non-empty, no connective and no blank
Symbol(s) == s # <<>> /\ \A i \in 1..Len(s) : s[i] \notin Connectives

\* a clause ~P1||...||~Pn||C
NegatedThenPositive(clause) ==
    LET ts == Split(clause, <<"|", "|">>) IN
    /\ Len(ts) >= 2
    /\ Symbol(ts[Len(ts)])
    /\ \A i \in 1..(Len(ts) - 1) : StartsWithTilde(ts[i]) /\ Symbol(Tail(ts[i]))

RECURSIVE Conjunction(_)
\* P1&...&Pn
Conjunction(ps) ==
    IF Len(ps) = 1 THEN ps[1] ELSE ps[1] \o <<"&">> \o Conjunction(Tail(ps))

\* P1&...&Pn=>C for the clause ~P1||...||~Pn||C
AsImplication(clause) ==
    LET ts == Split(clause, <<"|", "|">>) IN
    Conjunction([i \in 1..(Len(ts) - 1) |-> Tail(ts[i])]) \o <<"=", ">">> \o ts[Len(ts)]

RECURSIVE Rewritten(_)
\* the clauses with every ~P1||...||~Pn||C written as its implication
Rewritten(cs) ==
    IF cs = <<>> THEN <<>>
    ELSE <<IF NegatedThenPositive(cs[1]) THEN AsImplication(cs[1]) ELSE cs[1]>>
         \o Rewritten(Tail(cs))

RECURSIVE Text(_)
\* the TELL text of a sequence of clauses
Text(cs) == IF Len(cs) = 1 THEN cs[1] ELSE cs[1] \o <<";">> \o Text(Tail(cs))

\* the engine built from the implication form of the TELL text
Twin == parse_kb_and_query(Text(Rewritten(Split(tell, <<";">>))), ask)

\* the rule the claim assigns to ~P1||...||~Pn||C: premises P1..Pn, flag false
RuleOf(clause) ==
    LET ts == Split(clause, <<"|", "|">>) IN
    [premises |-> [i \in 1..(Len(ts) - 1) |-> [sym |-> Tail(ts[i]), neg |-> FALSE]],
     neg |-> FALSE]

\* C12: a clause ~P1||...||~Pn||C is loaded as the rule of P1&...&Pn=>C (same
\* premises, same conclusion, flag false), so the engine and its first run are
\* those of the implication text; TELL ~A||B; A ASK B gives YES with trace A, B.
C12_DisjunctionAsImplication ==
    (\E i \in 1..Len(Split(tell, <<";">>)) : NegatedThenPositive(Split(tell, <<";">>)[i])) =>
        /\ pc # "new" =>
              /\ rules = Twin.rules /\ query = Twin.query
              /\ runs = 0 => (pc = Twin.status /\ facts = Twin.facts)
        /\ pc \in {"loaded", "running", "done"} =>
              \A i \in 1..Len(Split(tell, <<";">>)) :
                 LET c == Split(tell, <<";">>)[i]
                     ts == Split(c, <<"|", "|">>)
                 IN NegatedThenPositive(c) =>
                       \E k \in 1..Len(rules) :
                          /\ rules[k].conclusion = ts[Len(ts)]
                          /\ \E j \in 1..Len(rules[k].disjuncts) :
                                rules[k].disjuncts[j] = RuleOf(c)
        /\ Len(results) >= 1 =>
              /\ results[1] = run(Twin.rules, Twin.facts, Twin.query)
              /\ (tell = <<"~", "A", "|", "|", "B", ";", "A">> /\ ask = <<"B">>) =>
                    results[1] = [verdict |-> "YES", trace |-> <<<<"A">>, <<"B">>>>]

\* C12 witness: TELL ~A||B; A ASK B has ended YES with trace A, B
C12_Witness ==
    /\ tell = <<"~", "A", "|", "|", "B", ";", "A">> /\ ask = <<"B">>
    /\ pc = "done" /\ runs = 1
    /\ verdict = "YES" /\ entailments = <<<<"A">>, <<"B">>>>

\* the symbols that have an entry in the Fact Set
FactKeys == { facts[i].sym : i \in 1..Len(facts) }

\* the symbols whose entry in the Fact Set is true
TrueKeys == { facts[i].sym : i \in { i \in 1..Len(facts) : facts[i].val } }

\* C13 (as stated): at every point of a run a symbol is in the Derived Facts Set
\* exactly when the Fact Set has an entry for it, of either polarity.
C13_DerivedIsFactKeys ==
    pc \in {"running", "done"} => derived_facts = FactKeys

\* C13 (amended): at every point of a run every symbol of the Derived Facts Set has
\* an entry in the Fact Set and every symbol whose entry is true is in the Derived
\* Facts Set; an entry that is false may belong to a symbol that is not a member.
C13_DerivedWithinFacts ==
    pc \in {"running", "done"} =>
        /\ derived_facts \subseteq FactKeys
        /\ TrueKeys \subseteq derived_facts

\* C13 witness: a run in which a negative fact stays outside the Derived Facts Set
\* while a symbol derived with polarity false is inside it
C13_Witness ==
    /\ pc = "running"
    /\ \E s \in FactKeys : s \notin derived_facts /\ ~FactValue(facts, s)
    /\ \E s \in derived_facts : ~FactValue(facts, s)

\* the disjuncts of the Rule Set, as pairs <<rule index, disjunct index>>
Disjuncts == UNION { { <<i, j>> : j \in 1..Len(rules[i].disjuncts) } : i \in 1..Len(rules) }

Premises(ij) == rules[ij[1]].disjuncts[ij[2]].premises

\* the firing condition of a disjunct for a Derived Facts Set D
Satisfied(ij, D) ==
    \A k \in 1..Len(Premises(ij)) : (Premises(ij)[k].sym \in D) <=> ~Premises(ij)[k].neg

NoNegatedPremise(ij) == \A k \in 1..Len(Premises(ij)) : ~Premises(ij)[k].neg

\* C14 (as stated): a firing condition that holds at a step of a run holds at
\* every later step of that run.
C14_FiringMonotone ==
    [][pc = "running" =>
          \A ij \in Disjuncts :
             Satisfied(ij, derived_facts) => Satisfied(ij, derived_facts')]_vars

\* C14 (amended): the firing condition of a disjunct without negated premises,
\* once it holds at a step of a run, holds at every later step of that run.
C14_PositiveFiringMonotone ==
    [][pc = "running" =>
          \A ij \in Disjuncts :
             (NoNegatedPremise(ij) /\ Satisfied(ij, derived_facts))
                => Satisfied(ij, derived_facts')]_vars

\* C14 witness: late in a run, a two-premise disjunct without negation is satisfied
C14_Witness ==
    /\ pc = "running" /\ Len(popped) >= 2
    /\ \E ij \in Disjuncts :
          /\ NoNegatedPremise(ij) /\ Len(Premises(ij)) >= 2
          /\ Satisfied(ij, derived_facts)

\* the polarity the Fact Set fs stores for a symbol
Polarity(fs, s) == fs[CHOOSE i \in 1..Len(fs) : fs[i].sym = s].val

\* C15: first derivation wins: while a run lasts, the polarity stored for a member
\* of the Derived Facts Set never changes, also when a disjunct with the opposite
\* flag is satisfied later; so the polarity read at a pop is the one stored when
\* the symbol was enqueued, and it is still the stored one afterwards.
C15_FirstDerivationWins ==
    /\ [][pc = "running" =>
            \A s \in derived_facts : Polarity(facts', s) = Polarity(facts, s)]_vars
    /\ [](pc \in {"running", "done"} =>
            \A i \in 1..Len(popped) : popped[i].pol = Polarity(facts, popped[i].sym))

\* C15 witness: a member of the Derived Facts Set keeps its polarity while a
\* disjunct that would store the opposite one is satisfied and a sweep is still due
C15_Witness ==
    /\ pc = "running" /\ agenda # <<>>
    /\ \E ij \in Disjuncts :
          /\ rules[ij[1]].conclusion \in derived_facts
          /\ Satisfied(ij, derived_facts)
          /\ Polarity(facts, rules[ij[1]].conclusion) = rules[ij[1]].disjuncts[ij[2]].neg

\* C16: at every point of a run, the trace accumulated by that run followed by the
\* agenda has no duplicate and its symbols are exactly the Derived Facts Set:
\* a symbol is enqueued at most once and popped at most once per run.
C16_EnqueuedOnce ==
    pc \in {"running", "done"} =>
        /\ \A i, j \in 1..Len(Enqueued) : Enqueued[i] = Enqueued[j] => i = j
        /\ { Enqueued[i] : i \in 1..Len(Enqueued) } = derived_facts

\* C16 witness: in a second call of run, symbols both popped and still waiting
C16_Witness ==
    /\ pc = "running" /\ runs = 2
    /\ RunTrace # <<>> /\ agenda # <<>>
    /\ Len(Enqueued) >= 3

\* C17: the loop cannot fail: every symbol waiting in the agenda has an entry in
\* the Fact Set, so the lookup of the query check is defined at every pop; once a
\* run has started the engine is running or done, and done means YES or NO.
C17_LoopCannotFail ==
    /\ pc \in {"new", "loaded", "exited", "crashed", "running", "done"}
    /\ runs > 0 => pc \in {"running", "done"}
    /\ pc = "running" =>
          /\ verdict = "none"
          /\ \A i \in 1..Len(agenda) : \E k \in 1..Len(facts) : facts[k].sym = agenda[i]
    /\ pc = "done" => verdict \in {"YES", "NO"}

\* C17 witness: the query check looked up, and found, a symbol that a rule derived
C17_Witness ==
    /\ pc = "done" /\ verdict = "YES"
    /\ popped # <<>> /\ popped[Len(popped)].sym = query[1]
    /\ \A i \in 1..Len(Loaded.facts) : Loaded.facts[i].sym # query[1]

\* an implication clause of the TELL text (this claim's texts hold no "||")
IsImplication(clause) == Contains(clause, <<"=", ">">>) /\ ~Contains(clause, <<"|", "|">>)

\* whether the trimmed clause starts with "~", for the implication clauses that
\* conclude the symbol s, in text order
StartFlags(s) ==
    LET cs == SelectSeq(Clauses, LAMBDA c :
                  IsImplication(c) /\ LStrip(RightHandSide(c), "~") = s)
    IN [i \in 1..Len(cs) |-> cs[i][1] = "~"]

\* the symbol has a true entry in the Fact Set as loaded
InitiallyTrue(s) == \E i \in 1..Len(Loaded.facts) : Loaded.facts[i] = [sym |-> s, val |-> TRUE]

\* C18: the flag of a rule is true exactly when its trimmed clause starts with "~",
\* that is when its first premise is negated; a symbol derived only by such rules,
\* as C by ~A&B=>C, is stored false, so the query C is not satisfied and ~C is.
C18_ClauseStartFlag ==
    pc \in {"loaded", "running", "done"} =>
        /\ \A k \in 1..Len(rules) :
              /\ [j \in 1..Len(rules[k].disjuncts) |-> rules[k].disjuncts[j].neg]
                    = StartFlags(rules[k].conclusion)
              /\ \A j \in 1..Len(rules[k].disjuncts) :
                    rules[k].disjuncts[j].neg = rules[k].disjuncts[j].premises[1].neg
        /\ \A k \in 1..Len(rules) :
              LET s == rules[k].conclusion IN
              (/\ pc # "loaded" /\ s \in derived_facts /\ ~InitiallyTrue(s)
               /\ \A j \in 1..Len(rules[k].disjuncts) : rules[k].disjuncts[j].neg) =>
                  /\ Polarity(facts, s) = FALSE
                  /\ (pc = "done" /\ query[1] = s) => ((verdict = "YES") <=> query[2])

\* C18 witness: ~A&B=>C has fired and the query C got NO
C18_Witness ==
    /\ tell = <<"B", ";", "~", "A", "&", "B", "=", ">", "C">>
    /\ query = <<<<"C">>, FALSE>>
    /\ pc = "done" /\ verdict = "NO"
    /\ <<"C">> \in derived_facts /\ Polarity(facts, <<"C">>) = FALSE

\* the symbols of S, and the conclusions of the rules as loaded one of whose
\* disjuncts has all its non-negated premises in S
Supported(S) ==
    S \cup { Loaded.rules[i].conclusion : i \in
               { i \in 1..Len(Loaded.rules) :
                   \E j \in 1..Len(Loaded.rules[i].disjuncts) :
                      \A k \in 1..Len(Loaded.rules[i].disjuncts[j].premises) :
                         \/ Loaded.rules[i].disjuncts[j].premises[k].neg
                         \/ Loaded.rules[i].disjuncts[j].premises[k].sym \in S } }

RECURSIVE Supportable(_)
Supportable(S) == IF Supported(S) = S THEN S ELSE Supportable(Supported(S))

\* every symbol some rule could ever conclude, starting from the true facts
MaySupport ==
    Supportable({ Loaded.facts[i].sym : i \in { i \in 1..Len(Loaded.facts) : Loaded.facts[i].val } })

\* C19: a symbol s loaded as a negative fact enters the Derived Facts Set only by a
\* rule that fires concluding s; when no rule can, s is never in the Derived Facts
\* Set; and a symbol kept out of it is never on the Work Queue nor in the trace,
\* keeps its false entry, and the run answers NO for the query s and for ~s.
C19_NegativeOnlyNeverQueued ==
    pc \in {"running", "done"} =>
        \A i \in 1..Len(Loaded.facts) :
            LET s == Loaded.facts[i].sym IN
            ~Loaded.facts[i].val =>
                /\ (runs = 1 /\ s \in derived_facts) =>
                      \E ij \in Disjuncts :
                         /\ rules[ij[1]].conclusion = s
                         /\ \A k \in 1..Len(Premises(ij)) :
                               ~Premises(ij)[k].neg => Premises(ij)[k].sym \in derived_facts
                /\ s \notin MaySupport => s \notin derived_facts
                /\ s \notin derived_facts =>
                      /\ \A k \in 1..Len(Enqueued) : Enqueued[k] # s
                      /\ Polarity(facts, s) = FALSE
                      /\ (pc = "done" /\ query[1] = s) => verdict = "NO"

\* C19 witness: ~D is loaded, the only rule for D never fires, and ASK ~D got NO
C19_Witness ==
    /\ tell = <<"~", "D", ";", "A", ";", "C", "=", ">", "D">>
    /\ query = <<<<"D">>, TRUE>>
    /\ pc = "done" /\ verdict = "NO"
    /\ RunTrace = <<<<"A">>>>
    /\ <<"D">> \notin derived_facts

\* the TELL texts made of the same clauses in every order
Shuffles ==
    LET cs == Split(tell, <<";">>) IN
    { Text([i \in 1..Len(cs) |-> cs[p[i]]]) : p \in Permutations(1..Len(cs)) }

\* the load status of a TELL text and the verdict of run() on the engine built from it
Outcome(t) ==
    LET kb == parse_kb_and_query(t, ask) IN
    [status |-> kb.status,
     verdict |-> IF kb.status = "loaded" THEN run(kb.rules, kb.facts, kb.query).verdict
                 ELSE "none"]

\* no premise of the Rule Set as loaded is negated
PositivePremises ==
    \A i \in 1..Len(Loaded.rules) : \A j \in 1..Len(Loaded.rules[i].disjuncts) :
        \A k \in 1..Len(Loaded.rules[i].disjuncts[j].premises) :
            ~Loaded.rules[i].disjuncts[j].premises[k].neg

\* the bare clauses of the TELL text, as pairs <<symbol, stated negative>>
FactClauses ==
    { <<LStrip(Clauses[i], "~"), Clauses[i][1] = "~">> :
        i \in { i \in 1..Len(Clauses) :
                  Clauses[i] # <<>> /\ ~Contains(Clauses[i], <<"=", ">">>)
                                    /\ ~Contains(Clauses[i], <<"|", "|">>) } }

\* no symbol is stated both true and false by bare clauses
ConsistentFacts == \A f \in FactClauses : <<f[1], ~f[2]>> \notin FactClauses

\* C20 (as stated): with only non-negated premises, every order of the clauses of
\* the TELL text gives the verdict the run gave.
C20_OrderInvariant ==
    (PositivePremises /\ results # <<>>) =>
        \A t \in Shuffles : \A r \in 1..Len(results) :
            Outcome(t) = [status |-> "loaded", verdict |-> results[r].verdict]

\* C20: with only non-negated premises and no symbol stated both true and false
\* by bare clauses, every order of the clauses of the TELL text loads and gives
\* the verdict the run gave; only the trace may differ.
C20_ConsistentOrderInvariant ==
    (PositivePremises /\ ConsistentFacts /\ results # <<>>) =>
        \A t \in Shuffles : \A r \in 1..Len(results) :
            Outcome(t) = [status |-> "loaded", verdict |-> results[r].verdict]

\* C20 witness: a YES whose trace another order of the same clauses changes
C20_Witness ==
    /\ PositivePremises /\ ConsistentFacts
    /\ pc = "done" /\ verdict = "YES" /\ Len(results) = 1
    /\ \E t \in Shuffles :
          LET kb == parse_kb_and_query(t, ask) IN
          run(kb.rules, kb.facts, kb.query).trace # results[1].trace

====
